---- MODULE Spec2Model ----
(***************************************************************************)
(* A model of mat64/la/cholesky.go: CholeskyL, CholeskyR and CholeskySolve *)
(* over dense matrices of float64.                                        *)
(*                                                                         *)
(* float64 values are modelled as pairs <<num, den>>: a finite value is a  *)
(* reduced fraction with den > 0, and den = 0 holds the three special      *)
(* values NaN = <<0,0>>, +Inf = <<1,0>>, -Inf = <<-1,0>>.  The four        *)
(* arithmetic operations are exact on finite values and follow IEEE 754 on *)
(* the special values (x/0, 0/0, Inf-Inf, 0*Inf, comparisons with NaN).    *)
(* The sign of zero is not modelled: every zero divisor the factorizers    *)
(* produce is +0 (math.Max(d, 0) never returns -0).                        *)
(*                                                                         *)
(* A behaviour is one caller: either CholeskyL followed by CholeskyR on    *)
(* the same matrix (SpecChol), or one call of CholeskySolve (SpecSolve).   *)
(* A loop iteration of the outermost or second loop is one step.           *)
(***************************************************************************)
EXTENDS Integers, Sequences, FiniteSets, TLC

\* ------------------------------------------------------------------ bounds
\* Largest number of rows or columns of any matrix handed to the package.
MaxDim == 3
\* Inputs are drawn at distance at most MaxWeight from a canonical instance
\* (see InitChol and InitSolve): the sum of the absolute values of the
\* integer deviations, plus the number of rows or columns added or removed.
MaxWeight == 2

\* ------------------------------------------------------------- float64
NaN == <<0, 0>>
PosInf == <<1, 0>>
NegInf == <<-1, 0>>
Zero == <<0, 1>>

Abs(x) == IF x < 0 THEN -x ELSE x
Sgn(x) == IF x < 0 THEN -1 ELSE IF x > 0 THEN 1 ELSE 0

RECURSIVE GCD(_, _)
GCD(x, y) == IF y = 0 THEN x ELSE GCD(y, x % y)

\* The value num/den (den >= 0) in reduced form; n/0 is an infinity or NaN.
Norm(num, den) ==
    IF den = 0 THEN <<Sgn(num), 0>>
    ELSE IF den = 1 THEN <<num, 1>>
    ELSE IF num = 0 THEN Zero
    ELSE LET g == GCD(Abs(num), den) IN <<num \div g, den \div g>>

FromInt(i) == <<i, 1>>
IsNaN(x) == x = NaN
IsInf(x) == x = PosInf \/ x = NegInf
IsFinite(x) == x[2] > 0

\* x + y
Add(x, y) ==
    IF IsNaN(x) \/ IsNaN(y) THEN NaN
    ELSE IF IsInf(x) /\ IsInf(y) THEN (IF x = y THEN x ELSE NaN)
    ELSE IF IsInf(x) THEN x
    ELSE IF IsInf(y) THEN y
    ELSE Norm(x[1] * y[2] + y[1] * x[2], x[2] * y[2])

Neg(x) == <<-x[1], x[2]>>

\* x - y
Sub(x, y) == Add(x, Neg(y))

\* x * y (0 * Inf falls out as <<0,0>> = NaN)
Mul(x, y) == Norm(x[1] * y[1], x[2] * y[2])

\* 1 / y, with 1/0 = +Inf and 1/Inf = 0
Recip(y) ==
    IF IsNaN(y) THEN NaN
    ELSE IF y[1] = 0 THEN PosInf
    ELSE IF IsInf(y) THEN Zero
    ELSE <<Sgn(y[1]) * y[2], Abs(y[1])>>

\* x / y: no panic on a zero divisor, the result is an infinity or NaN
Div(x, y) == Mul(x, Recip(y))

\* x > 0 (false for NaN)
Gt0(x) == x[1] > 0

\* x == y on float64 (NaN equals nothing, itself included)
EqF(x, y) == ~IsNaN(x) /\ ~IsNaN(y) /\ x = y

\* math.Max(x, 0): NaN if x is NaN, else the larger
Max0(x) == IF IsNaN(x) THEN NaN ELSE IF Gt0(x) THEN x ELSE Zero

\* floor(sqrt(N)) for N >= 0, by Newton's iteration from above
RECURSIVE ISqrtFrom(_, _)
ISqrtFrom(N, x) ==
    LET y == (x + N \div x) \div 2 IN IF y >= x THEN x ELSE ISqrtFrom(N, y)
ISqrt(N) == IF N = 0 THEN 0 ELSE ISqrtFrom(N, N)
ISqrtUp(N) == LET r == ISqrt(N) IN IF r * r = N THEN r ELSE r + 1

\* math.Sqrt(x) for x >= 0 or NaN: exact when the root of p/q is rational,
\* otherwise the root rounded up to the next multiple of 1/q (float64 rounds
\* too; a positive argument always has a positive root).
Sqrt(x) ==
    IF IsNaN(x) THEN NaN
    ELSE IF x = PosInf THEN PosInf
    ELSE Norm(ISqrtUp(x[1] * x[2]), x[2])

\* --------------------------------------------------------- mat64.Dense
\* A dense matrix: its dimensions and its elements, indexed from 0.
NewDense(rows, cols) ==
    [rows |-> rows, cols |-> cols,
     data |-> [i \in 0..(rows - 1) |-> [c \in 0..(cols - 1) |-> Zero]]]

Empty == NewDense(0, 0)

\* The panics: mat64.ErrSquare, mat64.ErrShape, and an index out of range.
ErrSquare == "mat64: expect square matrix"
ErrShape == "mat64: dimension mismatch"
ErrIndex == "index out of range"

\* An access outside these ranges is fatal (a panic).
InRange(mat, i, c) == 0 <= i /\ i < mat.rows /\ 0 <= c /\ c < mat.cols

At(mat, i, c) == mat.data[i][c]
Set(mat, i, c, v) == [mat EXCEPT !.data[i][c] = v]
\* Row copies row i into a slice; SetRow copies a slice over row i.
Row(mat, i) == mat.data[i]
SetRow(mat, i, row) == [mat EXCEPT !.data[i] = row]

\* ------------------------------------------------------------- inputs
\* The sum over t in 1..w of the step f[t] = <<position, +1 or -1>> taken at
\* position i (the step <<0, 0>> moves nothing).
RECURSIVE StepSum(_, _, _)
StepSum(f, i, w) ==
    IF w = 0 THEN 0
    ELSE (IF f[w][1] = i THEN f[w][2] ELSE 0) + StepSum(f, i, w - 1)

\* The integer vectors of length len whose absolute values sum to at most w,
\* the entries after the first signed ones being >= 0: the vectors w unit
\* steps reach from 0.
Vecs(len, signed, w) ==
    {[i \in 1..len |-> StepSum(f, i, w)] :
        f \in [1..w -> {<<0, 0>>} \cup ((1..signed) \X {-1}) \cup ((1..len) \X {1})]}

RECURSIVE Weight(_)
Weight(vec) == IF vec = <<>> THEN 0 ELSE Abs(Head(vec)) + Weight(Tail(vec))

\* The lower-triangular integer matrix I + E of order n, the entries of E on
\* and below the diagonal listed row by row in vec.
LowerOf(n, vec) ==
    [i \in 0..(n - 1) |-> [c \in 0..(n - 1) |->
        IF c > i THEN 0
        ELSE vec[(i * (i + 1)) \div 2 + c + 1] + (IF i = c THEN 1 ELSE 0)]]

RECURSIVE IntDot(_, _, _)
IntDot(u, v, len) ==
    IF len = 0 THEN 0 ELSE u[len - 1] * v[len - 1] + IntDot(u, v, len - 1)

\* The n x n product L0.L0' plus delta at entry (pr, pc), given rows rows:
\* only its first rows are kept when rows < n, zero rows are added when
\* rows > n.
BuildA(rows, n, L0, pr, pc, delta) ==
    [rows |-> rows, cols |-> n,
     data |-> [i \in 0..(rows - 1) |-> [c \in 0..(n - 1) |->
        IF i >= n THEN Zero
        ELSE FromInt(IntDot(L0[i], L0[c], n)
                     + (IF i = pr /\ c = pc THEN delta ELSE 0))]]]

\* The distance of the shape dims from n x n x ...: rows or columns added
\* or removed.
RECURSIVE ShapeDev(_, _)
ShapeDev(dims, n) ==
    IF dims = <<>> THEN 0 ELSE Abs(Head(dims) - n) + ShapeDev(Tail(dims), n)

\* -------------------------------------------------------------- state
VARIABLES
    op,     \* the function called
    lret,   \* what CholeskyL returned to the caller: <<l, spd>>, or <<>>
    pc,     \* the position in it
    err,    \* the panic raised, if any
    a,      \* CholeskyL, CholeskyR: the argument a
    l,      \* CholeskyL: the result l; CholeskySolve: the argument l
    r,      \* CholeskyR: the result r
    b,      \* CholeskySolve: the argument b, which x aliases
    spd,    \* the named result spd
    j, k,   \* loop indices
    d,      \* the running sum of the pivot
    lRowj,  \* CholeskyL: the slice holding row j
    gen     \* how the input was drawn (not program state)

vars == <<op, lret, pc, err, a, l, r, b, spd, j, k, d, lRowj, gen>>

InitChol ==
    /\ op = "CholeskyL"
    /\ lret = <<>>
    /\ pc = "start"
    /\ err = "none"
    \* The input: an order n, a row count rows, a lower-triangular
    \* L0 = I + E with a diagonal >= 0 and one perturbed entry, at total
    \* distance at most MaxWeight from the identity of order n.
    /\ \E n \in 1..MaxDim, rows \in 1..MaxDim :
         /\ ShapeDev(<<rows>>, n) <= MaxWeight
         /\ \E vec \in Vecs((n * (n + 1)) \div 2, (n * (n + 1)) \div 2,
                            MaxWeight - ShapeDev(<<rows>>, n)) :
              /\ \A i \in 0..(n - 1) : LowerOf(n, vec)[i][i] >= 0
              /\ \E p \in {<<0, 0, 0>>} \cup
                          ((0..(n - 1)) \X (0..(n - 1))
                             \X ((-MaxWeight)..MaxWeight \ {0})) :
                   /\ Abs(p[3]) + Weight(vec) + ShapeDev(<<rows>>, n) <= MaxWeight
                   /\ gen = [n |-> n, rows |-> rows, l0 |-> LowerOf(n, vec),
                             pr |-> p[1], pc |-> p[2], delta |-> p[3]]
    /\ a = BuildA(gen.rows, gen.n, gen.l0, gen.pr, gen.pc, gen.delta)
    /\ l = Empty /\ r = Empty /\ b = Empty
    /\ spd = FALSE
    /\ j = 0 /\ k = 0 /\ d = Zero
    /\ lRowj = Row(NewDense(1, 0), 0)

\* ---------------------------------------------------------- CholeskyL
\* DotRows with the loop stopping one term short (i < k - 1).
RECURSIVE DotRowsShort(_, _, _)
DotRowsShort(lRowk, rowj, len) ==
    IF len <= 1 THEN Zero
    ELSE Add(DotRowsShort(lRowk, rowj, len - 1), Mul(lRowk[len - 2], rowj[len - 2]))

\* s after the loop over i < k: the dot product of rows k and j of l.
RECURSIVE DotRows(_, _, _)
DotRows(lRowk, rowj, len) ==
    IF len = 0 THEN Zero
    ELSE Add(DotRows(lRowk, rowj, len - 1), Mul(lRowk[len - 1], rowj[len - 1]))

\* row j of the factor with the entries right of the diagonal set to 0
ZeroAfter(row, jj, n) == [c \in 0..(n - 1) |-> IF c > jj THEN Zero ELSE row[c]]

\* AndEq without the comparison.
AndEqUnchecked(flag, x, y) == flag

\* spd && x == y, the right operand evaluated only when spd holds
AndEq(flag, x, y) == flag /\ EqF(x, y)

\* spd && d > 0
AndPos(flag, dd) == flag /\ Gt0(dd)

\* math.Sqrt(math.Max(d, 0))
Pivot(dd) == Sqrt(Max0(dd))

\* The call ends in the panic e, with the state as it stands.
Panic(e) == /\ pc' = "panic"
            /\ err' = e
            /\ UNCHANGED <<op, lret, a, l, r, b, spd, j, k, d, lRowj, gen>>

\* Initialize: m, n := a.Dims(); spd = m == n; l = NewDense(n, n); the two
\* row slices.
CholLStart ==
    /\ op = "CholeskyL" /\ pc = "start"
    /\ spd' = (a.rows = a.cols)
    /\ l' = NewDense(a.cols, a.cols)
    /\ lRowj' = [c \in 0..(a.cols - 1) |-> Zero]
    /\ j' = 0
    /\ pc' = "outer"
    /\ UNCHANGED <<op, lret, err, a, r, b, k, d, gen>>

\* for j := 0; j < n; j++ { var d float64; l.Row(lRowj, j); k := 0 ...
CholLOuter ==
    /\ op = "CholeskyL" /\ pc = "outer"
    /\ IF j < a.cols
       THEN /\ d' = Zero
            /\ lRowj' = Row(l, j)
            /\ k' = 0
            /\ pc' = "inner"
            /\ UNCHANGED <<op, lret, err, a, l, r, b, spd, j, gen>>
       ELSE /\ pc' = "done"
            /\ UNCHANGED <<op, lret, err, a, l, r, b, spd, j, k, d, lRowj, gen>>

\* One iteration of for k := 0; k < j; k++ { ... }, or leaving the loop.
CholLInner ==
    /\ op = "CholeskyL" /\ pc = "inner"
    /\ IF k < j
       THEN IF ~InRange(a, j, k)
            THEN Panic(ErrIndex)
            ELSE LET s == Div(Sub(At(a, j, k), DotRows(Row(l, k), lRowj, k)),
                              At(l, k, k))
                 IN /\ lRowj' = [lRowj EXCEPT ![k] = s]
                    /\ d' = Add(d, Mul(s, s))
                    /\ IF spd /\ ~InRange(a, k, j)
                       THEN /\ pc' = "panic" /\ err' = ErrIndex
                            /\ UNCHANGED <<spd, k>>
                       ELSE /\ spd' = AndEq(spd, At(a, k, j), At(a, j, k))
                            /\ k' = k + 1
                            /\ pc' = "inner"
                            /\ err' = err
                    /\ UNCHANGED <<op, lret, a, l, r, b, j, gen>>
       ELSE /\ pc' = "pivot"
            /\ UNCHANGED <<op, lret, err, a, l, r, b, spd, j, k, d, lRowj, gen>>

\* l.SetRow(j, lRowj); d = a.At(j, j) - d; spd = spd && d > 0;
\* l.Set(j, j, sqrt(max(d, 0))); the entries right of the diagonal set to 0.
CholLPivot ==
    /\ op = "CholeskyL" /\ pc = "pivot"
    /\ IF ~InRange(a, j, j)
       THEN /\ l' = SetRow(l, j, lRowj)
            /\ pc' = "panic"
            /\ err' = ErrIndex
            /\ UNCHANGED <<op, lret, a, r, b, spd, j, k, d, lRowj, gen>>
       ELSE LET dd == Sub(At(a, j, j), d)
            IN /\ d' = dd
               /\ spd' = AndPos(spd, dd)
               /\ l' = SetRow(l, j, ZeroAfter([lRowj EXCEPT ![j] = Pivot(dd)], j, a.cols))
               /\ j' = j + 1
               /\ pc' = "outer"
               /\ UNCHANGED <<op, lret, err, a, r, b, k, lRowj, gen>>

\* ---------------------------------------------------------- CholeskyR
\* The caller, once CholeskyL has returned or panicked, keeps what it
\* returned and calls CholeskyR on the same a.
CallUpper ==
    /\ op = "CholeskyL" /\ pc \in {"done", "panic"}
    /\ lret' = IF pc = "done" THEN <<l, spd>> ELSE <<>>
    /\ op' = "CholeskyR"
    /\ pc' = "start"
    /\ err' = "none"
    /\ UNCHANGED <<a, l, r, b, spd, j, k, d, lRowj, gen>>

\* StoreR with the indices exchanged: r.Set(j, k, s).
StoreRExchanged(mat, kk, jj, s) == Set(mat, jj, kk, s)

\* r.Set(k, j, s)
StoreR(mat, kk, jj, s) == Set(mat, kk, jj, s)

\* SubCols reading r.At(i, j) for both factors of each term.
RECURSIVE SubColsSameColumn(_, _, _, _, _)
SubColsSameColumn(s0, mat, kk, jj, len) ==
    IF len = 0 THEN s0
    ELSE Sub(SubColsSameColumn(s0, mat, kk, jj, len - 1),
             Mul(At(mat, len - 1, jj), At(mat, len - 1, jj)))

\* s after the loop over i < k: a.At(k, j) less the dot product of columns k
\* and j of r.
RECURSIVE SubCols(_, _, _, _, _)
SubCols(s0, mat, kk, jj, len) ==
    IF len = 0 THEN s0
    ELSE Sub(SubCols(s0, mat, kk, jj, len - 1),
             Mul(At(mat, len - 1, kk), At(mat, len - 1, jj)))

\* column j of the factor with the entries below the diagonal set to 0
ZeroBelow(mat, jj) ==
    [mat EXCEPT !.data = [i \in 0..(mat.rows - 1) |->
        [c \in 0..(mat.cols - 1) |->
            IF c = jj /\ i > jj THEN Zero ELSE mat.data[i][c]]]]

\* Initialize: m, n := a.Dims(); spd = m == n; r = NewDense(n, n).
CholRStart ==
    /\ op = "CholeskyR" /\ pc = "start"
    /\ spd' = (a.rows = a.cols)
    /\ r' = NewDense(a.cols, a.cols)
    /\ j' = 0
    /\ pc' = "outer"
    /\ UNCHANGED <<op, lret, err, a, l, b, k, d, lRowj, gen>>

\* for j := 0; j < n; j++ { var d float64; k := 0 ...
CholROuter ==
    /\ op = "CholeskyR" /\ pc = "outer"
    /\ IF j < a.cols
       THEN /\ d' = Zero
            /\ k' = 0
            /\ pc' = "inner"
            /\ UNCHANGED <<op, lret, err, a, l, r, b, spd, j, lRowj, gen>>
       ELSE /\ pc' = "done"
            /\ UNCHANGED <<op, lret, err, a, l, r, b, spd, j, k, d, lRowj, gen>>

\* One iteration of for k := 0; k < j; k++ { ... }, or leaving the loop.
CholRInner ==
    /\ op = "CholeskyR" /\ pc = "inner"
    /\ IF k < j
       THEN IF ~InRange(a, k, j)
            THEN Panic(ErrIndex)
            ELSE LET s == Div(SubCols(At(a, k, j), r, k, j, k), At(r, k, k))
                 IN /\ r' = StoreR(r, k, j, s)
                    /\ d' = Add(d, Mul(s, s))
                    /\ IF spd /\ ~InRange(a, j, k)
                       THEN /\ pc' = "panic" /\ err' = ErrIndex
                            /\ UNCHANGED <<spd, k>>
                       ELSE /\ spd' = AndEq(spd, At(a, k, j), At(a, j, k))
                            /\ k' = k + 1
                            /\ pc' = "inner"
                            /\ err' = err
                    /\ UNCHANGED <<op, lret, a, l, b, j, lRowj, gen>>
       ELSE /\ pc' = "pivot"
            /\ UNCHANGED <<op, lret, err, a, l, r, b, spd, j, k, d, lRowj, gen>>

\* d = a.At(j, j) - d; spd = spd && d > 0; r.Set(j, j, sqrt(max(d, 0)));
\* the entries below the diagonal set to 0.
CholRPivot ==
    /\ op = "CholeskyR" /\ pc = "pivot"
    /\ IF ~InRange(a, j, j)
       THEN Panic(ErrIndex)
       ELSE LET dd == Sub(At(a, j, j), d)
            IN /\ d' = dd
               /\ spd' = AndPos(spd, dd)
               /\ r' = ZeroBelow(Set(r, j, j, Pivot(dd)), j)
               /\ j' = j + 1
               /\ pc' = "outer"
               /\ UNCHANGED <<op, lret, err, a, l, b, k, lRowj, gen>>

NextChol ==
    \/ CholLStart \/ CholLOuter \/ CholLInner \/ CholLPivot
    \/ CallUpper
    \/ CholRStart \/ CholROuter \/ CholRInner \/ CholRPivot

SpecChol == InitChol /\ [][NextChol]_vars

\* ------------------------------------------------------ CholeskySolve
\* An integer matrix of the given shape: entry (i, c) of the n x n matrix M
\* inside it, 0 outside.
Reshape(rows, cols, n, M) ==
    [rows |-> rows, cols |-> cols,
     data |-> [i \in 0..(rows - 1) |-> [c \in 0..(cols - 1) |->
        IF i < n /\ c < n THEN FromInt(M[i][c]) ELSE Zero]]]

\* The n x n integer matrix whose entries are listed row by row in vec from
\* position off + 1.
SquareOf(n, vec, off) ==
    [i \in 0..(n - 1) |-> [c \in 0..(n - 1) |-> vec[off + i * n + c + 1]]]

InitSolve ==
    /\ op = "CholeskySolve"
    /\ lret = <<>>
    /\ pc = "start"
    /\ err = "none"
    \* The input: the shapes of l and b, a lower-triangular L0 = I + E and a
    \* right-hand side B0 >= 0, at total distance at most MaxWeight from l = I,
    \* b = 0, both n x n.
    /\ \E n \in 1..MaxDim,
          sh \in (1..MaxDim) \X (1..MaxDim) \X (1..MaxDim) \X (1..MaxDim) :
         /\ ShapeDev(sh, n) <= MaxWeight
         /\ \E vec \in Vecs((n * (n + 1)) \div 2 + n * n, (n * (n + 1)) \div 2,
                            MaxWeight - ShapeDev(sh, n)) :
              /\ l = Reshape(sh[1], sh[2], n, LowerOf(n, vec))
              /\ b = Reshape(sh[3], sh[4], n,
                             SquareOf(n, vec, (n * (n + 1)) \div 2))
    /\ gen = [l0 |-> l, b0 |-> b]
    /\ a = Empty /\ r = Empty
    /\ spd = FALSE
    /\ j = 0 /\ k = 0 /\ d = Zero
    /\ lRowj = Row(NewDense(1, 0), 0)

\* x.At(k, j) after the loop over i < k: v less x.At(i, j) * l.At(k, i),
\* i ascending.
RECURSIVE FwdAcc(_, _, _, _, _)
FwdAcc(v, x, kk, jj, len) ==
    IF len = 0 THEN v
    ELSE Sub(FwdAcc(v, x, kk, jj, len - 1),
             Mul(At(x, len - 1, jj), At(l, kk, len - 1)))

\* BackAcc reading l.At(k, i) in place of l.At(i, k).
RECURSIVE BackAccUntransposed(_, _, _, _, _)
BackAccUntransposed(v, x, kk, jj, hi) ==
    IF hi <= kk + 1 THEN v
    ELSE Sub(BackAccUntransposed(v, x, kk, jj, hi - 1),
             Mul(At(x, hi - 1, jj), At(l, kk, hi - 1)))

\* x.At(k, j) after the loop over k < i < n: v less x.At(i, j) * l.At(i, k),
\* i ascending from k + 1 to hi - 1.
RECURSIVE BackAcc(_, _, _, _, _)
BackAcc(v, x, kk, jj, hi) ==
    IF hi <= kk + 1 THEN v
    ELSE Sub(BackAcc(v, x, kk, jj, hi - 1),
             Mul(At(x, hi - 1, jj), At(l, hi - 1, kk)))

\* Row k of x after the forward pass's loop over the columns j < nx.
FwdRow(x, kk, nx) ==
    [c \in 0..(x.cols - 1) |->
        IF c < nx THEN Div(FwdAcc(At(x, kk, c), x, kk, c, kk), At(l, kk, kk))
        ELSE At(x, kk, c)]

\* Row k of x after the backward pass's loop over the columns j < nx.
BackRow(x, kk, nx) ==
    [c \in 0..(x.cols - 1) |->
        IF c < nx THEN Div(BackAcc(At(x, kk, c), x, kk, c, l.cols), At(l, kk, kk))
        ELSE At(x, kk, c)]

\* StartError with the two checks in the other order.
StartErrorShapeFirst(lmat, bmat) ==
    IF lmat.cols # bmat.cols THEN ErrShape
    ELSE IF lmat.cols # lmat.rows THEN ErrSquare
    ELSE "none"

\* The two checks, in order: m, n := l.Dims(); if n != m { panic(ErrSquare) };
\* _, bn := b.Dims(); if n != bn { panic(ErrShape) }.
StartError(lmat, bmat) ==
    IF lmat.cols # lmat.rows THEN ErrSquare
    ELSE IF lmat.cols # bmat.cols THEN ErrShape
    ELSE "none"

\* m, n := l.Dims(); the two checks; nx := bn; x = b; k := 0.
SolveStart ==
    /\ op = "CholeskySolve" /\ pc = "start"
    /\ IF StartError(l, b) # "none" THEN Panic(StartError(l, b))
       ELSE /\ pc' = "forward"
            /\ k' = 0
            /\ UNCHANGED <<op, lret, err, a, l, r, b, spd, j, d, lRowj, gen>>

\* One iteration of for k := 0; k < n; k++ { for j := 0; j < nx; j++ {...} },
\* or leaving the loop with k := n - 1.
SolveForward ==
    /\ op = "CholeskySolve" /\ pc = "forward"
    /\ IF k < l.cols
       THEN IF ~InRange(b, k, 0)
            THEN Panic(ErrIndex)
            ELSE /\ b' = SetRow(b, k, FwdRow(b, k, b.cols))
                 /\ k' = k + 1
                 /\ UNCHANGED <<op, lret, pc, err, a, l, r, spd, j, d, lRowj, gen>>
       ELSE /\ pc' = "backward"
            /\ k' = l.cols - 1
            /\ UNCHANGED <<op, lret, err, a, l, r, b, spd, j, d, lRowj, gen>>

\* One iteration of for k := n - 1; k >= 0; k-- { for j := 0; j < nx; j++
\* {...} }, or leaving the loop and returning x.
SolveBackward ==
    /\ op = "CholeskySolve" /\ pc = "backward"
    /\ IF k >= 0
       THEN IF ~InRange(b, k, 0)
            THEN Panic(ErrIndex)
            ELSE /\ b' = SetRow(b, k, BackRow(b, k, b.cols))
                 /\ k' = k - 1
                 /\ UNCHANGED <<op, lret, pc, err, a, l, r, spd, j, d, lRowj, gen>>
       ELSE /\ pc' = "done"
            /\ UNCHANGED <<op, lret, err, a, l, r, b, spd, j, k, d, lRowj, gen>>

NextSolve == SolveStart \/ SolveForward \/ SolveBackward

SpecSolve == InitSolve /\ [][NextSolve]_vars

Init == InitChol \/ InitSolve

Next == NextChol \/ NextSolve

Spec == Init /\ [][Next]_vars

\* ------------------------------------------------------------ properties
Returned(f) == op = f /\ pc = "done"

Order == a.cols

\* The input is L0.L0' for the generator's L0, square, L0's diagonal positive.
GenSPD ==
    /\ gen.delta = 0
    /\ gen.rows = gen.n
    /\ \A i \in 0..(gen.n - 1) : gen.l0[i][i] > 0

\* The sum over i < len of u[i] * v[i].
RECURSIVE ValDot(_, _, _)
ValDot(u, v, len) ==
    IF len = 0 THEN Zero ELSE Add(ValDot(u, v, len - 1), Mul(u[len - 1], v[len - 1]))

\* Entry (i, c) of mat.mat'
LLt(mat, i, c) == ValDot(mat.data[i], mat.data[c], mat.cols)

\* C1: for a symmetric positive-definite input A = L0.L0' (L0 lower-triangular
\* with a positive diagonal), CholeskyL returns spd = true and a factor l with
\* l.l' = A entry for entry, and l = L0.
C1_LowerFactorReconstructs ==
    (Returned("CholeskyL") /\ GenSPD) =>
        /\ spd
        /\ l.rows = Order /\ l.cols = Order
        /\ \A i, c \in 0..(Order - 1) :
             /\ LLt(l, i, c) = At(a, i, c)
             /\ At(l, i, c) = FromInt(gen.l0[i][c])

\* An SPD input of order 3 whose factor has a non-zero dot product of rows 1
\* and 2 has been factored.
C1_Witness ==
    /\ Returned("CholeskyL") /\ GenSPD
    /\ Order = 3
    /\ At(l, 1, 0) # Zero /\ At(l, 2, 0) # Zero

\* C9: for the same symmetric positive-definite input, the factor r CholeskyR
\* returns is the transpose of the factor l CholeskyL returned, and the two
\* calls return the same flag.
C9_UpperIsTransposeOfLower ==
    (Returned("CholeskyR") /\ GenSPD) =>
        /\ lret # <<>>
        /\ spd = lret[2]
        /\ r.rows = lret[1].cols /\ r.cols = lret[1].rows
        /\ \A jj, kk \in 0..(Order - 1) : At(r, kk, jj) = At(lret[1], jj, kk)

\* Both calls have returned on an SPD input of order 3 whose factor has
\* non-zero entries off the diagonal.
C9_Witness ==
    /\ Returned("CholeskyR") /\ GenSPD
    /\ Order = 3
    /\ At(r, 0, 1) # Zero /\ At(r, 0, 2) # Zero

\* The factor the call in progress builds, read as lower-triangular: entry
\* (jj, kk) of l, or entry (kk, jj) of r.
FactorAt(jj, kk) == IF op = "CholeskyL" THEN At(l, jj, kk) ELSE At(r, kk, jj)

\* The pivot d_j = A[j,j] - sum over k < j of L[j,k]^2.
RECURSIVE SumSq(_, _)
SumSq(jj, len) ==
    IF len = 0 THEN Zero
    ELSE Add(SumSq(jj, len - 1), Mul(FactorAt(jj, len - 1), FactorAt(jj, len - 1)))

PivotOf(jj) == Sub(At(a, jj, jj), SumSq(jj, jj))

AllPivotsPositive == \A jj \in 0..(Order - 1) : Gt0(PivotOf(jj))

Symmetric ==
    \A jj \in 0..(Order - 1) : \A kk \in 0..(jj - 1) : EqF(At(a, kk, jj), At(a, jj, kk))

C4_FlagAtReturn ==
    (Returned("CholeskyL") \/ Returned("CholeskyR")) =>
        (spd <=> (a.rows = a.cols /\ Symmetric /\ AllPivotsPositive))

C4_FlagStaysFalse == (op' = op /\ pc # "start" /\ ~spd) => ~spd'

\* C4: the flag CholeskyL or CholeskyR returns is true exactly when the input
\* is square, A[k,j] = A[j,k] for every k < j < n, and every pivot
\* d_j = A[j,j] - sum_{k<j} L[j,k]^2 is strictly positive; and within a call
\* the flag, once false, stays false.
C4_FlagIffSquareSymmetricPositive == []C4_FlagAtReturn /\ [][C4_FlagStaysFalse]_vars

\* A call has returned false on a square asymmetric input all of whose pivots
\* are positive.
C4_Witness ==
    /\ Returned("CholeskyL")
    /\ ~spd
    /\ a.rows = a.cols /\ ~Symmetric /\ AllPivotsPositive

\* C10: the factor returned is n x n and exactly triangular, whatever the flag:
\* l[j,k] = 0 for k > j from CholeskyL, r[k,j] = 0 for k > j from CholeskyR.
C10_FactorTriangular ==
    /\ Returned("CholeskyL") =>
         /\ l.rows = Order /\ l.cols = Order
         /\ \A jj \in 0..(Order - 1) : \A kk \in (jj + 1)..(Order - 1) :
              At(l, jj, kk) = Zero
    /\ Returned("CholeskyR") =>
         /\ r.rows = Order /\ r.cols = Order
         /\ \A jj \in 0..(Order - 1) : \A kk \in (jj + 1)..(Order - 1) :
              At(r, kk, jj) = Zero

\* CholeskyR has returned a factor of order 3 holding a NaN above the
\* diagonal and non-zero entries elsewhere above it.
C10_Witness ==
    /\ Returned("CholeskyR")
    /\ Order = 3
    /\ \E jj \in 0..2 : \E kk \in 0..(jj - 1) : IsNaN(At(r, kk, jj))

\* C5: CholeskyL and CholeskyR have no panic path: for an input of any shape
\* every element access stays in range and the call returns.
C5_NoPanicPath ==
    op \in {"CholeskyL", "CholeskyR"} => (pc # "panic" /\ err = "none")

FactorHasNaN == \E jj, kk \in 0..(Order - 1) : IsNaN(FactorAt(jj, kk))

\* C6: for a square input with some pivot not positive, CholeskyL and
\* CholeskyR return false and a factor without NaN whose diagonal entries are
\* the non-negative reals sqrt(max(d, 0)).
C6_NonPDFactorWellDefined ==
    ((Returned("CholeskyL") \/ Returned("CholeskyR"))
        /\ a.rows = a.cols /\ ~AllPivotsPositive) =>
        /\ ~spd
        /\ ~FactorHasNaN
        /\ \A jj \in 0..(Order - 1) :
             /\ IsFinite(FactorAt(jj, jj)) /\ FactorAt(jj, jj)[1] >= 0
             /\ FactorAt(jj, jj) = Sqrt(Max0(PivotOf(jj)))

IsZeroMatrix(mat) ==
    \A i \in 0..(mat.rows - 1) : \A c \in 0..(mat.cols - 1) : At(mat, i, c) = Zero

\* C7: CholeskyL on the zero matrix of order n >= 1 returns false and a factor
\* whose entries are all exactly zero.
C7_ZeroMatrixZeroFactor ==
    (Returned("CholeskyL") /\ a.rows = a.cols /\ IsZeroMatrix(a)) =>
        (~spd /\ IsZeroMatrix(l))

\* CholeskySolve's precondition on l: square, lower-triangular, no zero on
\* the diagonal.
SolvePre ==
    /\ l.rows = l.cols
    /\ \A i \in 0..(l.rows - 1) :
         /\ At(l, i, i) # Zero
         /\ \A c \in (i + 1)..(l.cols - 1) : At(l, i, c) = Zero

\* The sum over lo <= c < hi of f[c].
RECURSIVE SumOver(_, _, _)
SumOver(f, lo, hi) ==
    IF hi <= lo THEN Zero ELSE Add(SumOver(f, lo, hi - 1), f[hi - 1])

\* Entry (i, jj) of l.y, l lower-triangular
LTimes(y, i, jj) ==
    SumOver([c \in 0..i |-> Mul(At(l, i, c), y[c][jj])], 0, i + 1)

\* Entry (i, jj) of l'.x, l lower-triangular
LtTimes(x, i, jj) ==
    SumOver([c \in i..(l.cols - 1) |-> Mul(At(l, c, i), At(x, c, jj))], i, l.cols)

\* Y as the backward pass leaves it reconstructible: the rows <= k of b still
\* hold Y, the rows > k hold X and Y is l'.x there.
YOf(x, kk) ==
    [i \in 0..(l.cols - 1) |-> [c \in 0..(x.cols - 1) |->
        IF i <= kk THEN At(x, i, c) ELSE LtTimes(x, i, c)]]

\* (l.l').x = b0 on the rows of the system
SolvesSystem(x) ==
    LET A == [i \in 0..(l.cols - 1) |-> [m \in 0..(l.cols - 1) |-> LLt(l, i, m)]]
    IN \A i \in 0..(l.cols - 1) : \A c \in 0..(x.cols - 1) :
         SumOver([m \in 0..(l.cols - 1) |-> Mul(A[i][m], At(x, m, c))], 0, l.cols)
             = At(gen.b0, i, c)

\* C2: when CholeskySolve returns for a lower-triangular l with a non-zero
\* diagonal, (l.l').x = b0 in every column: the forward pass finalizes row k
\* from the rows i < k, leaving l.y = b0, and the backward pass finalizes row
\* k from the rows i > k, leaving l'.x = y.
C2_SolveSolvesSystem ==
    (op = "CholeskySolve" /\ SolvePre) =>
        /\ pc = "forward" =>
             /\ \A i \in 0..(k - 1) : \A c \in 0..(b.cols - 1) :
                  LTimes(b.data, i, c) = At(gen.b0, i, c)
             /\ \A i \in k..(b.rows - 1) : Row(b, i) = Row(gen.b0, i)
        /\ pc = "backward" =>
             /\ LET y == YOf(b, k)
                IN \A i \in 0..(l.cols - 1) : \A c \in 0..(b.cols - 1) :
                     LTimes(y, i, c) = At(gen.b0, i, c)
             /\ \A i \in l.cols..(b.rows - 1) : Row(b, i) = Row(gen.b0, i)
        /\ pc = "done" =>
             /\ SolvesSystem(b)
             /\ \A i \in l.cols..(b.rows - 1) : Row(b, i) = Row(gen.b0, i)

\* CholeskySolve has returned for a factor of order 3 with a non-zero entry
\* below the diagonal, and x differs from b0.
C2_Witness ==
    /\ op = "CholeskySolve" /\ pc = "done" /\ SolvePre
    /\ l.cols = 3
    /\ \E i \in 1..2 : \E c \in 0..(i - 1) : At(l, i, c) # Zero
    /\ \E i \in 0..1 : Row(b, i) # Row(gen.b0, i)

\* C3: for a square l of order n, CholeskySolve fails with the
\* dimension-mismatch error exactly when b's row count differs from n, before
\* any entry of b is written.
C3_MismatchIffRowsDiffer ==
    (op = "CholeskySolve" /\ pc # "start" /\ l.rows = l.cols) =>
        /\ (err = ErrShape) <=> (b.rows # l.cols)
        /\ err = ErrShape => b = gen.b0

\* C8: for an l that is not square CholeskySolve fails with ErrSquare for every
\* b, whatever the dimension-mismatch check would say, with b and l as they
\* were.
C8_NonSquareFactorRejected ==
    (op = "CholeskySolve" /\ pc # "start" /\ l.rows # l.cols) =>
        /\ pc = "panic" /\ err = ErrSquare
        /\ b = gen.b0 /\ l = gen.l0

\* The call has failed on an l that is not square with a b whose column count
\* and row count both differ from l's order.
C8_Witness ==
    /\ op = "CholeskySolve" /\ pc = "panic"
    /\ l.rows # l.cols
    /\ b.cols # l.cols /\ b.rows # l.cols

====
